---- MODULE Spec2Model ----
(***************************************************************************)
(* A model of the protopuf codecs: the varint coder, the enumeration       *)
(* coder, their skippers and the length-delimited array coder, in safe    *)
(* (bounds-checked) and unsafe mode, over a caller-owned byte array.       *)
(*                                                                         *)
(* An unsigned integer is the set of the positions of its 1 bits (bit 0    *)
(* least significant), so that 32- and 64-bit values keep their width.     *)
(* A view `bytes` is a pair of offsets [begin, end) into the backing       *)
(* array mem.                                                              *)
(***************************************************************************)
EXTENDS Integers, Sequences, FiniteSets, TLC

\* ------------------------------------------------------------------ bounds
\* size in bytes of the caller's backing array
Cap == 11
\* longest container handed to the array coder
MaxLen == 2
\* longest payload of a stored length-delimited block
MaxPay == 3
\* most students of a class handed to the message coder
MaxStudents == 3

\* ------------------------------------------------------------------- bytes
Byte == 0..255

\* 0b1000'0000_b | b
Or80(b) == IF b >= 128 THEN b ELSE b + 128
\* b & 0b0111'1111_b
And7F(b) == b % 128
\* b >> 7
Shr7Byte(b) == b \div 128

\* ------------------------------------------------------ unsigned integers
Zero == {}
IsZero(n) == n = {}
\* bit i of the natural number x
BitOf(x, i) == (x \div (2 ^ i)) % 2
\* bit i of the unsigned value n
Bit(n, i) == IF i \in n THEN 1 ELSE 0
\* conversion of a natural number x < 2^31 to a w-bit unsigned type
FromNat(x, w) == {i \in 0..30 : i < w /\ BitOf(x, i) = 1}
\* 2^k - 1 and 2^k
Ones(k) == 0..(k - 1)
Pow2(k) == {k}
\* bit length of n: 0 for zero, else the position of the highest 1 bit plus one
BitLen(n) == IF n = {} THEN 0 ELSE 1 + (CHOOSE i \in n : \A j \in n : j <= i)
\* ceil(a / b)
CeilDiv(a, b) == (a + b - 1) \div b
\* a | b
BvOr(a, b) == a \cup b
\* two's complement negation of a w-bit value: ~a + 1 (mod 2^w)
BvNeg(a, w) == {i \in 0..(w - 1) : IF \E j \in a : j < i THEN i \notin a ELSE i \in a}

\* std::byte(n): conversion of an unsigned value to a byte keeps the low 8 bits
LowByte(n) ==
    Bit(n, 0) + 2 * Bit(n, 1) + 4 * Bit(n, 2) + 8 * Bit(n, 3) + 16 * Bit(n, 4)
        + 32 * Bit(n, 5) + 64 * Bit(n, 6) + 128 * Bit(n, 7)
\* n >>= 7 on an unsigned value
ShrSeven(n) == {i - 7 : i \in {j \in n : j >= 7}}
\* the byte x placed at bit s, cut to w bits
PlaceByte(x, s, w) == {s + k : k \in {j \in 0..7 : BitOf(x, j) = 1 /\ s + j < w}}
\* the value of the low 30 bits of n
RECURSIVE LowNatFrom(_, _)
LowNatFrom(n, i) == IF i >= 30 THEN 0 ELSE Bit(n, i) * (2 ^ i) + LowNatFrom(n, i + 1)
LowNat(n) == LowNatFrom(n, 0)
\* a comparison that lets the bound itself through: d <= n
LessThan_OrEqual(d, n) == (\E i \in n : i >= 30) \/ d <= LowNat(n)

\* d < n for a small natural d and an unsigned value n
LessThan(d, n) == (\E i \in n : i >= 30) \/ d < LowNat(n)

\* ------------------------------------------------------------------- types
\* the instantiations: unsigned and signed integers, enumerations, and bool
\* ("c8" is char, the element type of a string, coded by integer_coder<char>)
Types == {"u8", "u32", "u64", "i32", "E_i32", "E_u64", "bool"}

Kind(t) ==
    CASE t \in {"u8", "u32", "u64"} -> "unsigned"
      [] t \in {"i32", "i64"} -> "signed"
      [] t \in {"E_i32", "E_u64"} -> "enum"
      [] t = "bool" -> "bool"
      [] t = "c8" -> "fixed"

\* std::underlying_type_t<T>: enum class E2 {...} has int, enum E3 : pp::uint<8>
Underlying(t) == CASE t = "E_i32" -> "i32" [] t = "E_u64" -> "u64"

\* std::make_unsigned_t<T>
MakeUnsigned(t) == CASE t = "i32" -> "u32" [] t = "i64" -> "u64"

\* bit width of an integer type
Bits(t) ==
    CASE t \in {"u8", "c8"} -> 8
      [] t \in {"u32", "i32"} -> 32
      [] t \in {"u64", "i64"} -> 64

\* sizeof(T)
SizeOf(t) == Bits(t) \div 8

\* A signed value is a sign and a magnitude: [neg, mag].
\* Conversion of a signed value to make_unsigned_t<T>: the value modulo 2^w.
ToUnsigned(v, w) == IF v.neg THEN BvNeg(v.mag, w) ELSE v.mag
\* Conversion of a w-bit unsigned value to the signed type of the same width.
ToSigned(u, w) ==
    IF (w - 1) \in u THEN [neg |-> TRUE, mag |-> BvNeg(u, w)]
    ELSE [neg |-> FALSE, mag |-> u]
\* static_cast<T>(x) to an enumeration, static_cast<underlying_type_t<T>>(e) from it
ToEnum(x) == [under |-> x]
FromEnum(e) == e.under

\* ------------------------------------------------------------------ builds
\* What a build makes of the two undefined operations of the code: an unchecked
\* iterator that leaves the view ("raw": a pointer into the backing array,
\* "trap": a checked iterator that aborts), and a shift by at least the
\* width of the promoted operand ("mask": the count wraps, "zero": all bits
\* are shifted out).
Builds == [iter : {"raw", "trap"}, shift : {"mask", "zero"}]

\* whether *iter can be evaluated for an iterator at offset iter of a view ending at end
Deref(iter, end, build) == iter < end \/ (build.iter = "raw" /\ iter < Cap)

\* static_cast<T>(static_cast<T>(x) << s) for a byte x and a w-bit unsigned T;
\* T narrower than int is promoted to int before the shift
ShiftLeft(x, s, w, build) ==
    LET pw == IF w < 32 THEN 32 ELSE w
    IN  IF s < pw THEN PlaceByte(x, s, w)
        ELSE IF build.shift = "mask" THEN PlaceByte(x, s % pw, w)
        ELSE Zero

\* ------------------------------------------------- varint_coder<unsigned>
\* *iter = 0b1000'0000_b | std::byte(n)
EncByte(n) == Or80(LowByte(n))
\* an encoder that leaves the continuation bit on the last byte
LastByte_Keep(b) == b

\* *(iter - 1) &= 0b0111'1111_b
LastByte(b) == And7F(b)

\* an encoder that checks for the end only after passing it
EncAtEnd_Late(iter, end) == iter > end

\* if constexpr (is_safe) if (iter == end) return {};   (in encode)
EncAtEnd(iter, end) == iter = end

RECURSIVE encode_loop(_, _, _, _, _, _, _)
encode_loop(is_safe, n, m, iter, end, wr, build) ==
    IF is_safe /\ EncAtEnd(iter, end) THEN [status |-> "absent", mem |-> m, wr |-> wr]
    ELSE IF ~Deref(iter, end, build) THEN [status |-> "ub", mem |-> m, wr |-> wr]
    ELSE LET m1 == [m EXCEPT ![iter] = EncByte(n)]
             n1 == ShrSeven(n)
             wr1 == wr \cup {iter}
         IN  IF ~IsZero(n1) THEN encode_loop(is_safe, n1, m1, iter + 1, end, wr1, build)
             ELSE [status |-> "ok", mem |-> [m1 EXCEPT ![iter] = LastByte(@)],
                   rem |-> iter + 1, wr |-> wr1]

\* make_encode_result<is_safe>(iter, s.end()): the view [iter, end)
make_result(r, end) == IF r.status = "ok" /\ r.rem > end THEN [r EXCEPT !.status = "ub"] ELSE r

varint_encode(is_safe, n, m, begin, end, build) ==
    make_result(encode_loop(is_safe, n, m, begin, end, {}, build), end)

\* a decoder that shifts whole bytes: << 8*i
Accumulate_Shift8(n, b, i, w, build) == BvOr(n, ShiftLeft(b, 8 * i, w, build))

\* n |= static_cast<T>(static_cast<T>(*iter & 0b0111'1111_b) << 7*i)
Accumulate(n, b, i, w, build) == BvOr(n, ShiftLeft(b, 7 * i, w, build))

\* a decoder that gives up one byte before the end
DecAtEnd_Early(iter, end) == iter + 1 >= end

\* if constexpr (is_safe) if (iter == end) return {};   (in decode)
DecAtEnd(iter, end) == iter = end

RECURSIVE decode_loop(_, _, _, _, _, _, _, _, _)
decode_loop(is_safe, w, m, iter, end, n, i, rd, build) ==
    IF ~Deref(iter, end, build) THEN [status |-> "ub", rd |-> rd]
    ELSE IF Shr7Byte(m[iter]) = 1
    THEN LET n1 == Accumulate(n, And7F(m[iter]), i, w, build)
         IN  IF is_safe /\ DecAtEnd(iter + 1, end) THEN [status |-> "absent", rd |-> rd \cup {iter}]
             ELSE decode_loop(is_safe, w, m, iter + 1, end, n1, i + 1, rd \cup {iter}, build)
    ELSE [status |-> "ok", val |-> Accumulate(n, m[iter], i, w, build),
          rem |-> iter + 1, rd |-> rd \cup {iter}]

\* a decoder without the check of the empty view, and of the end of the view
varint_decode_Unchecked(is_safe, w, m, begin, end, build) ==
    make_result(decode_loop(FALSE, w, m, begin, end, Zero, 0, {}, build), end)

varint_decode(is_safe, w, m, begin, end, build) ==
    IF is_safe /\ DecAtEnd(begin, end) THEN [status |-> "absent", rd |-> {}]
    ELSE make_result(decode_loop(is_safe, w, m, begin, end, Zero, 0, {}, build), end)


\* --------------------------------------------------- varint_coder<signed>
\* varint_coder<make_unsigned_t<T>>::encode<is_safe>(n, s): n converts to unsigned
svarint_encode(t, is_safe, v, m, begin, end, build) ==
    varint_encode(is_safe, ToUnsigned(v, Bits(MakeUnsigned(t))), m, begin, end, build)

\* the unsigned decode_result converted to decode_result<T, is_safe>
svarint_decode(t, is_safe, m, begin, end, build) ==
    LET r == varint_decode(is_safe, Bits(MakeUnsigned(t)), m, begin, end, build)
    IN  IF r.status = "ok" THEN [r EXCEPT !.val = ToSigned(r.val, Bits(t))] ELSE r

\* varint_coder<T> for an integer type t, signed or unsigned
int_varint_encode(t, is_safe, v, m, begin, end, build) ==
    IF Kind(t) = "signed" THEN svarint_encode(t, is_safe, v, m, begin, end, build)
    ELSE varint_encode(is_safe, v, m, begin, end, build)

int_varint_decode(t, is_safe, m, begin, end, build) ==
    IF Kind(t) = "signed" THEN svarint_decode(t, is_safe, m, begin, end, build)
    ELSE varint_decode(is_safe, Bits(t), m, begin, end, build)

\* ------------------------------------------------------------- enum_coder
enum_encode(t, is_safe, e, m, begin, end, build) ==
    int_varint_encode(Underlying(t), is_safe, FromEnum(e), m, begin, end, build)

\* a decoder that returns the view it was handed, not the remainder of the varint
enum_decode_KeepView(t, is_safe, m, begin, end, build) ==
    LET r == int_varint_decode(Underlying(t), is_safe, m, begin, end, build)
    IN  IF r.status = "ok" THEN [r EXCEPT !.val = ToEnum(r.val), !.rem = begin]
        ELSE IF r.status = "absent" THEN [status |-> "absent", rd |-> r.rd]
        ELSE r

\* get_value_from_result, then make_decode_result<T>(static_cast<T>(first), second)
enum_decode(t, is_safe, m, begin, end, build) ==
    LET r == int_varint_decode(Underlying(t), is_safe, m, begin, end, build)
    IN  IF r.status = "ok" THEN [r EXCEPT !.val = ToEnum(r.val)]
        ELSE IF r.status = "absent" THEN [status |-> "absent", rd |-> r.rd]
        ELSE r

\* --------------------------------------------------------------- skippers
\* skipper<varint_coder<unsigned>>::encode_skip: do { v >>= 7, ++n; } while (v != 0)
RECURSIVE skip_loop(_, _)
skip_loop(v, n) ==
    LET v1 == ShrSeven(v) IN IF ~IsZero(v1) THEN skip_loop(v1, n + 1) ELSE n + 1

\* a skipper that counts the groups of the bit length: 0 for zero
varint_encode_skip_NoMin(v) == CeilDiv(BitLen(v), 7)

varint_encode_skip(v) == skip_loop(v, 0)

\* skipper<varint_coder<unsigned>>::decode_skip: while ((*iter++ >> 7) == 1_b) {...}
RECURSIVE decode_skip_loop(_, _, _, _, _, _)
decode_skip_loop(is_safe, m, iter, end, rd, build) ==
    IF ~Deref(iter, end, build) THEN [status |-> "ub", rd |-> rd]
    ELSE IF Shr7Byte(m[iter]) = 1
    THEN IF is_safe /\ iter + 1 = end THEN [status |-> "absent", rd |-> rd \cup {iter}]
         ELSE decode_skip_loop(is_safe, m, iter + 1, end, rd \cup {iter}, build)
    ELSE [status |-> "ok", rem |-> iter + 1, rd |-> rd \cup {iter}]

\* a skipper without the check of the empty view
varint_decode_skip_NoEmpty(is_safe, m, begin, end, build) ==
    make_result(decode_skip_loop(is_safe, m, begin, end, {}, build), end)

varint_decode_skip(is_safe, m, begin, end, build) ==
    IF is_safe /\ begin = end THEN [status |-> "absent", rd |-> {}]
    ELSE make_result(decode_skip_loop(is_safe, m, begin, end, {}, build), end)

\* skipper<varint_coder<signed>>::encode_skip
svarint_encode_skip(t, v) == varint_encode_skip(ToUnsigned(v, Bits(MakeUnsigned(t))))

\* skipper<varint_coder<T>>::encode_skip for an integer type t
int_varint_encode_skip(t, v) ==
    IF Kind(t) = "signed" THEN svarint_encode_skip(t, v) ELSE varint_encode_skip(v)

\* skipper<integer_coder<T>>::encode_skip: sizeof(T)
integer_encode_skip(size) == size

\* a skipper without the check b.size() < sizeof(T)
integer_decode_skip_Unchecked(is_safe, size, begin, end) ==
    IF end - begin < size THEN [status |-> "ub", rd |-> {}]
    ELSE [status |-> "ok", rem |-> begin + size, rd |-> {}]

\* skipper<integer_coder<T>>::decode_skip: b.subspan<sizeof(T)>()
integer_decode_skip(is_safe, size, begin, end) ==
    IF is_safe /\ end - begin < size THEN [status |-> "absent", rd |-> {}]
    ELSE IF end - begin < size THEN [status |-> "ub", rd |-> {}]
    ELSE [status |-> "ok", rem |-> begin + size, rd |-> {}]

\* skipper<enum_coder<T>>
enum_encode_skip(t, e) == int_varint_encode_skip(Underlying(t), FromEnum(e))

enum_decode_skip(t, is_safe, m, begin, end, build) ==
    integer_decode_skip(is_safe, SizeOf(Underlying(t)), begin, end)

\* ---------------------------------------------------------- integer_coder
\* byte j of the little-endian representation of v
ByteAt(v, j) ==
    Bit(v, 8 * j) + 2 * Bit(v, 8 * j + 1) + 4 * Bit(v, 8 * j + 2) + 8 * Bit(v, 8 * j + 3)
        + 16 * Bit(v, 8 * j + 4) + 32 * Bit(v, 8 * j + 5) + 64 * Bit(v, 8 * j + 6)
        + 128 * Bit(v, 8 * j + 7)

\* integer_coder<T>::encode: sizeof(T) bytes, little-endian
integer_encode(is_safe, size, v, m, begin, end) ==
    IF end - begin < size
    THEN [status |-> IF is_safe THEN "absent" ELSE "ub", mem |-> m, wr |-> {}]
    ELSE [status |-> "ok",
          mem |-> [i \in DOMAIN m |->
                      IF i >= begin /\ i < begin + size THEN ByteAt(v, i - begin) ELSE m[i]],
          rem |-> begin + size, wr |-> begin..(begin + size - 1)]

\* integer_coder<T>::decode: sizeof(T) bytes, little-endian
integer_decode(is_safe, size, m, begin, end) ==
    IF end - begin < size
    THEN [status |-> IF is_safe THEN "absent" ELSE "ub", rd |-> {}]
    ELSE [status |-> "ok",
          val |-> UNION {PlaceByte(m[begin + j], 8 * j, 8 * size) : j \in 0..(size - 1)},
          rem |-> begin + size, rd |-> begin..(begin + size - 1)]

\* ------------------------------------------------------------- bool_coder
\* the 1-byte unsigned value of a bool: false is 0, true is 1
BoolByte(v) == FromNat(IF v THEN 1 ELSE 0, 8)

\* bool_coder::encode: the varint over a 1-byte unsigned
bool_encode(is_safe, v, m, begin, end, build) ==
    varint_encode(is_safe, BoolByte(v), m, begin, end, build)

\* bool_coder::decode: 0 is false, nonzero is true
bool_decode(is_safe, m, begin, end, build) ==
    LET r == varint_decode(is_safe, 8, m, begin, end, build)
    IN  IF r.status = "ok" THEN [r EXCEPT !.val = ~IsZero(r.val)] ELSE r

\* skipper<bool_coder>: the skipper of integer_coder<uint<1>>
bool_encode_skip(v) == integer_encode_skip(1)

bool_decode_skip(is_safe, begin, end) == integer_decode_skip(is_safe, 1, begin, end)

\* ------------------------------------------- the element coder C of a type
coder_encode(t, is_safe, v, m, begin, end, build) ==
    CASE Kind(t) = "enum" -> enum_encode(t, is_safe, v, m, begin, end, build)
      [] Kind(t) = "bool" -> bool_encode(is_safe, v, m, begin, end, build)
      [] Kind(t) = "fixed" -> integer_encode(is_safe, SizeOf(t), v, m, begin, end)
      [] OTHER -> int_varint_encode(t, is_safe, v, m, begin, end, build)

coder_decode(t, is_safe, m, begin, end, build) ==
    CASE Kind(t) = "enum" -> enum_decode(t, is_safe, m, begin, end, build)
      [] Kind(t) = "bool" -> bool_decode(is_safe, m, begin, end, build)
      [] Kind(t) = "fixed" -> integer_decode(is_safe, SizeOf(t), m, begin, end)
      [] OTHER -> int_varint_decode(t, is_safe, m, begin, end, build)

coder_encode_skip(t, v) ==
    CASE Kind(t) = "enum" -> enum_encode_skip(t, v)
      [] Kind(t) = "bool" -> bool_encode_skip(v)
      [] Kind(t) = "fixed" -> integer_encode_skip(SizeOf(t))
      [] OTHER -> int_varint_encode_skip(t, v)

coder_decode_skip(t, is_safe, m, begin, end, build) ==
    CASE Kind(t) = "enum" -> enum_decode_skip(t, is_safe, m, begin, end, build)
      [] Kind(t) = "bool" -> bool_decode_skip(is_safe, begin, end)
      [] Kind(t) = "fixed" -> integer_decode_skip(is_safe, SizeOf(t), begin, end)
      [] OTHER -> varint_decode_skip(is_safe, m, begin, end, build)


\* ------------------------------------------------------------ array_coder
\* a length prefix that counts the elements, not their bytes
payload_len_Count(t, con) == Len(con)

\* uint<8> n = 0; for (const auto& i : con) n += skipper<C>::encode_skip(i);
RECURSIVE payload_len(_, _)
payload_len(t, con) ==
    IF con = <<>> THEN 0 ELSE coder_encode_skip(t, Head(con)) + payload_len(t, Tail(con))

\* for (const auto& i : con) if (!get_value_from_result(C::encode(i, safe_b), safe_b)) return {};
RECURSIVE encode_elems(_, _, _, _, _, _, _, _, _)
encode_elems(t, is_safe, con, m, b, end, wr, calls, build) ==
    IF con = <<>> THEN [status |-> "ok", mem |-> m, rem |-> b, wr |-> wr, calls |-> calls]
    ELSE LET r == coder_encode(t, is_safe, Head(con), m, b, end, build)
         IN  IF r.status = "ok"
             THEN encode_elems(t, is_safe, Tail(con), r.mem, r.rem, end, wr \cup r.wr,
                               calls + 1, build)
             ELSE [status |-> r.status, mem |-> r.mem, wr |-> wr \cup r.wr,
                   calls |-> calls + 1]

\* a prefix encoded without the template argument is_safe: in unsafe mode
encode_prefix_Unsafe(is_safe, n, m, begin, end, build) ==
    varint_encode(FALSE, FromNat(n, 64), m, begin, end, build)

\* the length prefix: varint_coder<uint<8>>::encode<is_safe>(n, b)
encode_prefix(is_safe, n, m, begin, end, build) ==
    varint_encode(is_safe, FromNat(n, 64), m, begin, end, build)

array_encode(t, is_safe, con, m, begin, end, build) ==
    LET r == encode_prefix(is_safe, payload_len(t, con), m, begin, end, build)
    IN  IF r.status # "ok"
        THEN [status |-> r.status, mem |-> r.mem, wr |-> r.wr, calls |-> 0]
        ELSE encode_elems(t, is_safe, con, r.mem, r.rem, end, r.wr, 0, build)

\* a decoder that inserts every element at the front of the container
Insert_Front(con, v) == <<v>> \o con

\* *std::inserter(con, con.end()) = v
Insert(con, v) == Append(con, v)

\* while (begin_diff(b, origin_b) < len) { decode an element, insert it, advance b }
RECURSIVE decode_elems(_, _, _, _, _, _, _, _, _, _)
decode_elems(t, is_safe, m, b, end, origin, len, con, rd, build) ==
    IF LessThan(b - origin, len)
    THEN LET r == coder_decode(t, is_safe, m, b, end, build)
         IN  IF r.status = "ok"
             THEN decode_elems(t, is_safe, m, r.rem, end, origin, len, Insert(con, r.val),
                               rd \cup r.rd, build)
             ELSE [status |-> r.status, rd |-> rd \cup r.rd, calls |-> Len(con) + 1,
                   len |-> len, origin |-> origin]
    ELSE [status |-> "ok", val |-> con, rem |-> b, rd |-> rd, calls |-> Len(con),
          len |-> len, origin |-> origin]

array_decode(t, is_safe, m, begin, end, build) ==
    LET d == varint_decode(is_safe, 64, m, begin, end, build)
    IN  IF d.status # "ok" THEN [status |-> d.status, rd |-> d.rd, calls |-> 0]
        ELSE decode_elems(t, is_safe, m, d.rem, end, d.rem, d.val, <<>>, d.rd, build)

\* a skipper that forgets the bytes of the length prefix
array_encode_skip_NoPrefix(t, con) == payload_len(t, con)

\* skipper<array_coder<C, R>>::encode_skip: n += skipper<varint_coder<uint<8>>>::encode_skip(n)
array_encode_skip(t, con) ==
    LET n == payload_len(t, con) IN n + varint_encode_skip(FromNat(n, 64))

\* a skipper without the check b.size() < n
array_decode_skip_NoSizeCheck(is_safe, m, begin, end, build) ==
    LET d == varint_decode(is_safe, 64, m, begin, end, build)
    IN  IF d.status # "ok" THEN [status |-> d.status, rd |-> d.rd]
        ELSE [status |-> IF \E i \in d.val : i >= 30 THEN "ub" ELSE "ok",
              rem |-> d.rem + LowNat(d.val), rd |-> d.rd, len |-> d.val, origin |-> d.rem]

\* skipper<array_coder<C, R>>::decode_skip: b.subspan(n) after the length prefix
array_decode_skip(is_safe, m, begin, end, build) ==
    LET d == varint_decode(is_safe, 64, m, begin, end, build)
    IN  IF d.status # "ok" THEN [status |-> d.status, rd |-> d.rd]
        ELSE IF LessThan(end - d.rem, d.val)
             THEN [status |-> IF is_safe THEN "absent" ELSE "ub", rd |-> d.rd,
                   len |-> d.val, origin |-> d.rem]
             ELSE [status |-> "ok", rem |-> d.rem + LowNat(d.val), rd |-> d.rd,
                   len |-> d.val, origin |-> d.rem]


\* ------------------------------------------------- field and message coders
\* Student = message<varint_field<1, uint<4>>, string_field<3>>
\* Class   = message<string_field<8>, message_field<3, Student, repeated>>
\* A Student is [id, name], a Class is [name, students]; a string is the sequence
\* of its chars.

\* the tag of a field: varint of (number << 3) | wire_type
Tag(num, wire) == FromNat(num * 8 + wire, 32)
\* n >> 3
ShrThree(n) == {i - 3 : i \in {j \in n : j >= 3}}

\* the state of an encode that has written nothing yet
Start(m, begin) == [status |-> "ok", mem |-> m, rem |-> begin, wr |-> {}]
\* the state of an encode after one more nested encode x
After(r, x) ==
    IF x.status = "ok"
    THEN [status |-> "ok", mem |-> x.mem, rem |-> x.rem, wr |-> r.wr \cup x.wr]
    ELSE [status |-> x.status, mem |-> x.mem, wr |-> r.wr \cup x.wr]

\* a varint written where the encode r stopped
put_varint(is_safe, u, r, end, build) ==
    IF r.status # "ok" THEN r
    ELSE After(r, varint_encode(is_safe, u, r.mem, r.rem, end, build))

\* string_coder::encode where the encode r stopped
put_string(is_safe, str, r, end, build) ==
    IF r.status # "ok" THEN r
    ELSE After(r, array_encode("c8", is_safe, str, r.mem, r.rem, end, build))

\* varint_field<num, T>: omitted when zero, else tag and varint
varint_field_encode(num, is_safe, v, r, end, build) ==
    IF IsZero(v) THEN r
    ELSE put_varint(is_safe, v, put_varint(is_safe, Tag(num, 0), r, end, build), end, build)

varint_field_encode_skip(num, v) ==
    IF IsZero(v) THEN 0 ELSE varint_encode_skip(Tag(num, 0)) + varint_encode_skip(v)

\* string_field<num>: omitted when empty, else tag, length and chars
string_field_encode(num, is_safe, str, r, end, build) ==
    IF str = <<>> THEN r
    ELSE put_string(is_safe, str, put_varint(is_safe, Tag(num, 2), r, end, build), end, build)

string_field_encode_skip(num, str) ==
    IF str = <<>> THEN 0 ELSE varint_encode_skip(Tag(num, 2)) + array_encode_skip("c8", str)

\* message_coder<Student>::encode where the encode r stopped: fields in declared order
student_encode(is_safe, st, r, end, build) ==
    string_field_encode(3, is_safe, st.name,
                        varint_field_encode(1, is_safe, st.id, r, end, build), end, build)

student_encode_skip(st) ==
    varint_field_encode_skip(1, st.id) + string_field_encode_skip(3, st.name)

\* message_field<3, Student, repeated>: per element the tag, the length of the
\* inner message and the inner message
RECURSIVE students_encode(_, _, _, _, _)
students_encode(is_safe, sts, r, end, build) ==
    IF sts = <<>> THEN r
    ELSE students_encode(is_safe, Tail(sts),
             student_encode(is_safe, Head(sts),
                 put_varint(is_safe, FromNat(student_encode_skip(Head(sts)), 64),
                            put_varint(is_safe, Tag(3, 2), r, end, build), end, build),
                 end, build),
             end, build)

\* message_coder<Class>::encode(c, b)
class_encode(is_safe, c, m, begin, end, build) ==
    students_encode(is_safe, c.students,
                    string_field_encode(8, is_safe, c.name, Start(m, begin), end, build),
                    end, build)

\* a decode that failed: absent in safe mode, undefined in unsafe mode
Malformed(is_safe, rd) == [status |-> IF is_safe THEN "absent" ELSE "ub", rd |-> rd]

\* the skipper of an unknown field, chosen by its wire type
wire_skip(wire, is_safe, m, begin, end, build) ==
    CASE wire = 0 -> varint_decode_skip(is_safe, m, begin, end, build)
      [] wire = 1 -> integer_decode_skip(is_safe, 8, begin, end)
      [] wire = 5 -> integer_decode_skip(is_safe, 4, begin, end)
      [] wire = 2 -> array_decode_skip(is_safe, m, begin, end, build)
      [] OTHER -> Malformed(is_safe, {})

\* the decoder of the field of Student a tag names, or the skipper of its wire type
student_field_decode(num, wire, is_safe, m, begin, end, build) ==
    CASE num = 1 /\ wire = 0 -> varint_decode(is_safe, 32, m, begin, end, build)
      [] num = 3 /\ wire = 2 -> array_decode("c8", is_safe, m, begin, end, build)
      [] (num = 1 /\ wire # 0) \/ (num = 3 /\ wire # 2) -> Malformed(is_safe, {})
      [] OTHER -> wire_skip(wire, is_safe, m, begin, end, build)

\* the record st after the field num was decoded as v
student_with(st, num, wire, v) ==
    CASE num = 1 /\ wire = 0 -> [st EXCEPT !.id = v.val]
      [] num = 3 /\ wire = 2 -> [st EXCEPT !.name = v.val]
      [] OTHER -> st

\* message_coder<Student>::decode: read a tag, dispatch, until the view is consumed
RECURSIVE student_decode(_, _, _, _, _, _, _)
student_decode(is_safe, m, b, end, st, rd, build) ==
    IF b >= end THEN [status |-> "ok", val |-> st, rem |-> b, rd |-> rd]
    ELSE LET Step(t, num, wire, v) ==
                 IF v.status # "ok"
                 THEN [status |-> v.status, rd |-> rd \cup t.rd \cup v.rd]
                 ELSE student_decode(is_safe, m, v.rem, end,
                                     student_with(st, num, wire, v),
                                     rd \cup t.rd \cup v.rd, build)
             Field(t, num, wire) ==
                 Step(t, num, wire,
                      student_field_decode(num, wire, is_safe, m, t.rem, end, build))
             Tagged(t) ==
                 IF t.status # "ok" THEN [status |-> t.status, rd |-> rd \cup t.rd]
                 ELSE Field(t, LowNat(ShrThree(t.val)), LowNat(t.val) % 8)
         IN  Tagged(varint_decode(is_safe, 32, m, b, end, build))

\* a record with the defaults of its types
NoStudent == [id |-> Zero, name |-> <<>>]
NoClass == [name |-> <<>>, students |-> <<>>]

\* a nested Student: the varint length, then the inner message in that many bytes
nested_student_decode(is_safe, m, begin, end, build) ==
    LET Inner(l) ==
            IF l.status # "ok" THEN [status |-> l.status, rd |-> l.rd]
            ELSE IF LessThan(end - l.rem, l.val) THEN Malformed(is_safe, l.rd)
            ELSE student_decode(is_safe, m, l.rem, l.rem + LowNat(l.val), NoStudent, l.rd,
                                build)
    IN  Inner(varint_decode(is_safe, 64, m, begin, end, build))

class_field_decode(num, wire, is_safe, m, begin, end, build) ==
    CASE num = 8 /\ wire = 2 -> array_decode("c8", is_safe, m, begin, end, build)
      [] num = 3 /\ wire = 2 -> nested_student_decode(is_safe, m, begin, end, build)
      [] num \in {3, 8} /\ wire # 2 -> Malformed(is_safe, {})
      [] OTHER -> wire_skip(wire, is_safe, m, begin, end, build)

class_with(c, num, wire, v) ==
    CASE num = 8 /\ wire = 2 -> [c EXCEPT !.name = v.val]
      [] num = 3 /\ wire = 2 -> [c EXCEPT !.students = Append(@, v.val)]
      [] OTHER -> c

\* message_coder<Class>::decode(b)
RECURSIVE class_decode_loop(_, _, _, _, _, _, _)
class_decode_loop(is_safe, m, b, end, c, rd, build) ==
    IF b >= end THEN [status |-> "ok", val |-> c, rem |-> b, rd |-> rd]
    ELSE LET Step(t, num, wire, v) ==
                 IF v.status # "ok"
                 THEN [status |-> v.status, rd |-> rd \cup t.rd \cup v.rd]
                 ELSE class_decode_loop(is_safe, m, v.rem, end, class_with(c, num, wire, v),
                                        rd \cup t.rd \cup v.rd, build)
             Field(t, num, wire) ==
                 Step(t, num, wire,
                      class_field_decode(num, wire, is_safe, m, t.rem, end, build))
             Tagged(t) ==
                 IF t.status # "ok" THEN [status |-> t.status, rd |-> rd \cup t.rd]
                 ELSE Field(t, LowNat(ShrThree(t.val)), LowNat(t.val) % 8)
         IN  Tagged(varint_decode(is_safe, 32, m, b, end, build))

class_decode(is_safe, m, begin, end, build) ==
    class_decode_loop(is_safe, m, begin, end, NoClass, {}, build)

\* ------------------------------------------------------------------ inputs
\* unsigned values: the least and the greatest of every encoded length, 1 and 150
UValues(w) ==
    {Ones(k) : k \in {j \in 0..w : j % 7 = 0 \/ j = w}}
        \cup {Pow2(k) : k \in {j \in 0..(w - 1) : j % 7 = 0}}
        \cup {FromNat(150, w)}

\* signed values: 0, 1, 127, 128, max, -1, -2, -128, min
SValues(w) ==
    {[neg |-> FALSE, mag |-> u] : u \in {Ones(0), Ones(1), Ones(7), Pow2(7), Ones(w - 1)}}
        \cup {[neg |-> TRUE, mag |-> Pow2(k)] : k \in {0, 1, 7, w - 1}}

IntValues(t) == IF Kind(t) = "signed" THEN SValues(Bits(t)) ELSE UValues(Bits(t))

\* enumeration values, named by the enumeration or not
EnumValues(t) ==
    IF Kind(Underlying(t)) = "signed" THEN {ToEnum(x) : x \in SValues(Bits(Underlying(t)))}
    ELSE {ToEnum(x) : x \in {Ones(0), Ones(1), Pow2(1), Pow2(7), Ones(35), Ones(64)}}

Values(t) ==
    CASE Kind(t) = "enum" -> EnumValues(t)
      [] Kind(t) = "bool" -> BOOLEAN
      [] OTHER -> IntValues(t)

\* the elements of the containers handed to the array coder: 1 and 128, or 1 and -1
ElemValues(t) ==
    CASE Kind(t) = "unsigned" -> {Ones(1), Pow2(7)}
      [] Kind(t) = "signed" -> {[neg |-> FALSE, mag |-> Ones(1)], [neg |-> TRUE, mag |-> Ones(1)]}
      [] Kind(t) = "enum" ->
            IF Kind(Underlying(t)) = "signed"
            THEN {ToEnum([neg |-> FALSE, mag |-> Ones(1)]), ToEnum([neg |-> FALSE, mag |-> Pow2(7)])}
            ELSE {ToEnum(Ones(1)), ToEnum(Pow2(7))}
      [] Kind(t) = "bool" -> BOOLEAN

Containers(t) == UNION {[1..k -> ElemValues(t)] : k \in 0..MaxLen}

\* the views of the backing array a caller hands over
ViewBegins == {0, 1}
Fills == {0, 255}

\* a stream of k bytes with the continuation bit, then a byte without it (or none)
Stream(k, c, last) == [i \in 1..k |-> c] \o last
ContBytes == {128, 255}
LastBytes == {<<>>, <<0>>, <<1>>, <<127>>}

\* a length-delimited block as received: a one-byte length prefix len, then payload
Block(len, payload) == <<len>> \o payload
\* the length prefixes of the stored blocks: short of, equal to and beyond the payload
BlockLens == 0..(MaxPay + 1)
\* payload bytes: a one-byte element, and a byte with the continuation bit
PayBytes == {1, 128}
Payloads == UNION {[1..k -> PayBytes] : k \in 0..MaxPay}

\* the string of the chars with the given codes
Str(codes) == [i \in 1..Len(codes) |-> FromNat(codes[i], 8)]
\* Student twice {123, "twice"}, tom{456, "tom"}, jerry{123456, "jerry"}
Tom == [id |-> FromNat(456, 32), name |-> Str(<<116, 111, 109>>)]
Jerry == [id |-> FromNat(123456, 32), name |-> Str(<<106, 101, 114, 114, 121>>)]
Twice == [id |-> FromNat(123, 32), name |-> Str(<<116, 119, 105, 99, 101>>)]
Students == {Tom, Jerry, Twice}
\* "class 101", and a shorter name
ClassNames == {Str(<<99, 108, 97, 115, 115, 32, 49, 48, 49>>), Str(<<99>>)}
\* lists of different students
StudentLists ==
    {sts \in UNION {[1..k -> Students] : k \in 0..MaxStudents} :
        \A i, j \in DOMAIN sts : sts[i] = sts[j] => i = j}
Classes == {[name |-> n, students |-> sts] : n \in ClassNames, sts \in StudentLists}
\* Class myClass {"class 101", {tom, jerry}}; myClass.get<3>().push_back(twice)
ReadmeClass ==
    [name |-> Str(<<99, 108, 97, 115, 115, 32, 49, 48, 49>>), students |-> <<Tom, Jerry, Twice>>]
\* array<byte, 64> buffer: not initialised
BufSize == 64
Buffer(fill) == [i \in 0..(BufSize - 1) |-> fill]

\* ------------------------------------------------------------------- state
VARIABLES
    T,      \* the type the codecs are instantiated for
    mem,    \* the caller's backing array
    call    \* the last call: its function, mode, view, argument and result

vars == <<T, mem, call>>

Fresh(fill) == [i \in 0..(Cap - 1) |-> fill]

Init ==
    /\ T \in Types
    /\ mem \in {Fresh(fill) : fill \in Fills}
    /\ call = [fn |-> "new", src |-> "new"]

\* the caller takes another array (T is a template argument: fixed at build time)
NewBuffer(fill) ==
    /\ call.fn # "new"
    /\ mem' = Fresh(fill)
    /\ call' = [fn |-> "new", src |-> "new"]
    /\ UNCHANGED T

\* the caller stores received bytes in the array
Store ==
    /\ call.fn = "new"
    /\ \E vb \in ViewBegins, k \in 0..Cap, c \in ContBytes, last \in LastBytes :
          /\ vb + k + Len(last) <= Cap
          /\ mem' = [i \in 0..(Cap - 1) |->
                       IF i >= vb /\ i < vb + k + Len(last)
                       THEN Stream(k, c, last)[i - vb + 1]
                       ELSE mem[i]]
          /\ call' = [fn |-> "store", src |-> "store", vb |-> vb, ve |-> vb + k + Len(last)]
    /\ UNCHANGED T

\* the caller stores a received length-delimited block in the array
StoreBlock ==
    /\ call.fn = "new"
    /\ \E vb \in ViewBegins, len \in BlockLens, payload \in Payloads :
          /\ mem' = [i \in 0..(Cap - 1) |->
                       IF i >= vb /\ i < vb + 1 + Len(payload)
                       THEN Block(len, payload)[i - vb + 1]
                       ELSE mem[i]]
          /\ call' = [fn |-> "store_block", src |-> "store", vb |-> vb,
                      ve |-> vb + 1 + Len(payload)]
    /\ UNCHANGED T

\* the result of an encode without the array it wrote
Res(r) == [f \in (DOMAIN r) \ {"mem"} |-> r[f]]

EncodeCall(fn, src, is_safe, v, vb, ve, r) ==
    /\ mem' = r.mem
    /\ call' = [fn |-> fn, src |-> src, safe |-> is_safe, vb |-> vb, ve |-> ve, arg |-> v,
                res |-> Res(r)]
    /\ UNCHANGED T

\* a decode of the view the last call was handed
DecodeCall(fn, is_safe, r) ==
    /\ call' = [fn |-> fn, src |-> "done", safe |-> is_safe, vb |-> call.vb, ve |-> call.ve,
                res |-> r]
    /\ UNCHANGED <<T, mem>>

SkipCall(fn, v, n) ==
    /\ call' = [fn |-> fn, src |-> "new", arg |-> v, res |-> n]
    /\ UNCHANGED <<T, mem>>

\* the whole array, or the bytes from offset 1 to any later offset
Views == {<<0, Cap>>} \cup {<<1, e>> : e \in 1..Cap}
\* encode shifts nothing: only the iterator's build matters to it
EncBuilds == {b \in Builds : b.shift = "mask"}

\* varint_coder<T>::encode<is_safe>(n, s), T unsigned
VarintEncode ==
    /\ call.fn = "new" /\ Kind(T) = "unsigned"
    /\ \E is_safe \in BOOLEAN, n \in Values(T), v \in Views, build \in EncBuilds :
          EncodeCall("varint_encode", "varint", is_safe, n, v[1], v[2],
                     varint_encode(is_safe, n, mem, v[1], v[2], build))

\* varint_coder<T>::encode<is_safe>(n, s), T signed
SignedEncode ==
    /\ call.fn = "new" /\ Kind(T) = "signed"
    /\ \E is_safe \in BOOLEAN, n \in Values(T), v \in Views, build \in EncBuilds :
          EncodeCall("svarint_encode", "varint", is_safe, n, v[1], v[2],
                     svarint_encode(T, is_safe, n, mem, v[1], v[2], build))

\* enum_coder<T>::encode<is_safe>(i, b)
EnumEncode ==
    /\ call.fn = "new" /\ Kind(T) = "enum"
    /\ \E is_safe \in BOOLEAN, e \in Values(T), v \in Views, build \in EncBuilds :
          EncodeCall("enum_encode", "varint", is_safe, e, v[1], v[2],
                     enum_encode(T, is_safe, e, mem, v[1], v[2], build))

\* bool_coder::encode<is_safe>(v, b)
BoolEncode ==
    /\ call.fn = "new" /\ Kind(T) = "bool"
    /\ \E is_safe \in BOOLEAN, v \in Values(T), w \in Views, build \in EncBuilds :
          EncodeCall("bool_encode", "varint", is_safe, v, w[1], w[2],
                     bool_encode(is_safe, v, mem, w[1], w[2], build))

\* array_coder<C, std::vector<T>>::encode<is_safe>(con, b)
ArrayEncode ==
    /\ call.fn = "new"
    /\ \E is_safe \in BOOLEAN, con \in Containers(T), v \in Views, build \in EncBuilds :
          EncodeCall("array_encode", "array", is_safe, con, v[1], v[2],
                     array_encode(T, is_safe, con, mem, v[1], v[2], build))

\* skipper<C>::encode_skip(v)
EncodeSkip ==
    /\ call.fn = "new"
    /\ \E v \in Values(T) : SkipCall("encode_skip", v, coder_encode_skip(T, v))

\* skipper<array_coder<C>>::encode_skip(con)
ArrayEncodeSkip ==
    /\ call.fn = "new"
    /\ \E con \in Containers(T) : SkipCall("array_encode_skip", con, array_encode_skip(T, con))

\* varint_coder<T>::decode<is_safe>(s), T unsigned
VarintDecode ==
    /\ call.src \in {"varint", "store"} /\ Kind(T) = "unsigned"
    /\ \E is_safe \in BOOLEAN, build \in Builds :
          DecodeCall("varint_decode", is_safe,
                     varint_decode(is_safe, Bits(T), mem, call.vb, call.ve, build))

\* varint_coder<T>::decode<is_safe>(s), T signed
SignedDecode ==
    /\ call.src \in {"varint", "store"} /\ Kind(T) = "signed"
    /\ \E is_safe \in BOOLEAN, build \in Builds :
          DecodeCall("svarint_decode", is_safe,
                     svarint_decode(T, is_safe, mem, call.vb, call.ve, build))

\* enum_coder<T>::decode<is_safe>(b)
EnumDecode ==
    /\ call.src \in {"varint", "store"} /\ Kind(T) = "enum"
    /\ \E is_safe \in BOOLEAN, build \in Builds :
          DecodeCall("enum_decode", is_safe,
                     enum_decode(T, is_safe, mem, call.vb, call.ve, build))

\* bool_coder::decode<is_safe>(b)
BoolDecode ==
    /\ call.src \in {"varint", "store"} /\ Kind(T) = "bool"
    /\ \E is_safe \in BOOLEAN, build \in Builds :
          DecodeCall("bool_decode", is_safe,
                     bool_decode(is_safe, mem, call.vb, call.ve, build))

\* skipper<bool_coder>::decode_skip<is_safe>(b)
BoolDecodeSkip ==
    /\ call.src \in {"varint", "store"} /\ Kind(T) = "bool"
    /\ \E is_safe \in BOOLEAN :
          DecodeCall("bool_decode_skip", is_safe, bool_decode_skip(is_safe, call.vb, call.ve))

\* skipper<varint_coder<T>>::decode_skip<is_safe>(b), T signed or unsigned
VarintDecodeSkip ==
    /\ call.src \in {"varint", "store"} /\ Kind(T) \in {"unsigned", "signed"}
    /\ \E is_safe \in BOOLEAN, build \in Builds :
          DecodeCall("varint_decode_skip", is_safe,
                     varint_decode_skip(is_safe, mem, call.vb, call.ve, build))

\* skipper<enum_coder<T>>::decode_skip<is_safe>(b)
EnumDecodeSkip ==
    /\ call.src \in {"varint", "store"} /\ Kind(T) = "enum"
    /\ \E is_safe \in BOOLEAN, build \in Builds :
          DecodeCall("enum_decode_skip", is_safe,
                     enum_decode_skip(T, is_safe, mem, call.vb, call.ve, build))

\* array_coder<C, std::vector<T>>::decode<is_safe>(b)
ArrayDecode ==
    /\ call.src \in {"array", "store"}
    /\ \E is_safe \in BOOLEAN, build \in Builds :
          DecodeCall("array_decode", is_safe,
                     array_decode(T, is_safe, mem, call.vb, call.ve, build))

\* skipper<array_coder<C, R>>::decode_skip<is_safe>(b)
ArrayDecodeSkip ==
    /\ call.src \in {"array", "store"}
    /\ \E is_safe \in BOOLEAN, build \in Builds :
          DecodeCall("array_decode_skip", is_safe,
                     array_decode_skip(is_safe, mem, call.vb, call.ve, build))

\* message_coder<Class>::encode<is_safe>(myClass, buffer), on a buffer of its own
MessageEncode ==
    /\ call.fn = "new" /\ T = "u32"
    /\ \E is_safe \in BOOLEAN, c \in Classes, fill \in Fills, build \in EncBuilds :
          call' = [fn |-> "message_encode", src |-> "message", safe |-> is_safe, arg |-> c,
                   res |-> class_encode(is_safe, c, Buffer(fill), 0, BufSize, build)]
    /\ UNCHANGED <<T, mem>>

\* message_coder<Class>::decode<is_safe>(b): of the whole buffer, or of the
\* bytes encode wrote
MessageDecode ==
    /\ call.fn = "message_encode" /\ call.res.status = "ok"
    /\ \E is_safe \in BOOLEAN, end \in {call.res.rem, BufSize}, build \in Builds :
          call' = [fn |-> "message_decode", src |-> "done", safe |-> is_safe, arg |-> call.arg,
                   enc |-> call.res.rem, ve |-> end,
                   res |-> class_decode(is_safe, call.res.mem, 0, end, build)]
    /\ UNCHANGED <<T, mem>>

Next ==
    \/ \E fill \in Fills : NewBuffer(fill)
    \/ Store
    \/ StoreBlock
    \/ VarintEncode
    \/ SignedEncode
    \/ EnumEncode
    \/ BoolEncode
    \/ ArrayEncode
    \/ EncodeSkip
    \/ ArrayEncodeSkip
    \/ VarintDecode
    \/ SignedDecode
    \/ EnumDecode
    \/ BoolDecode
    \/ BoolDecodeSkip
    \/ VarintDecodeSkip
    \/ EnumDecodeSkip
    \/ ArrayDecode
    \/ ArrayDecodeSkip
    \/ MessageEncode
    \/ MessageDecode

Spec == Init /\ [][Next]_vars


\* ------------------------------------------------------- the wire format
\* length of the varint of the unsigned value u: max(1, ceil(bitlen(u) / 7))
VarintLen(u) == IF BitLen(u) = 0 THEN 1 ELSE CeilDiv(BitLen(u), 7)
\* the j-th 7-bit group of u, least significant first
Group(u, j) ==
    Bit(u, 7 * j) + 2 * Bit(u, 7 * j + 1) + 4 * Bit(u, 7 * j + 2) + 8 * Bit(u, 7 * j + 3)
        + 16 * Bit(u, 7 * j + 4) + 32 * Bit(u, 7 * j + 5) + 64 * Bit(u, 7 * j + 6)
\* the varint of u: its groups, 0x80 set on all but the last
Wire(u) ==
    [j \in 1..VarintLen(u) |-> Group(u, j - 1) + (IF j < VarintLen(u) THEN 128 ELSE 0)]
\* the bytes of the array m in [from, to)
Slice(m, from, to) == [j \in 1..(to - from) |-> m[from + j - 1]]

EncodeFns == {"varint_encode", "svarint_encode", "enum_encode", "array_encode"}
\* the last call was an encode that succeeded
Encoded(fns) == call.fn \in fns /\ call.res.status = "ok"
\* the number of bytes the last (successful) encode wrote
Written == call.res.rem - call.vb

\* ------------------------------------------------------------------ claims

\* C1: varint round trip.  After varint_coder<unsigned>::encode(n) succeeded on a
\* view, decode of that view (in either mode, under every build) returns n, and
\* its remainder begins where the remainder of encode begins.
C1_VarintRoundTrip ==
    Encoded({"varint_encode"}) =>
        \A is_safe \in BOOLEAN, build \in Builds :
            LET d == varint_decode(is_safe, Bits(T), mem, call.vb, call.ve, build)
            IN  d.status = "ok" /\ d.val = call.arg /\ d.rem = call.res.rem

\* a 64-bit value of ten bytes was encoded
C1_Witness ==
    Encoded({"varint_encode"}) /\ T = "u64" /\ call.arg = Ones(64) /\ Written = 10

\* C2: varint canonical form.  encode(n) writes max(1, ceil(bitlen(n)/7)) bytes:
\* the 7-bit groups of n, least significant first, 0x80 set on every byte but the
\* last; zero is the single byte 0x00.
C2_VarintCanonical ==
    Encoded({"varint_encode"}) =>
        /\ Written = VarintLen(call.arg)
        /\ Slice(mem, call.vb, call.res.rem) = Wire(call.arg)
        /\ mem[call.res.rem - 1] < 128
        /\ \A i \in call.vb..(call.res.rem - 2) : mem[i] >= 128
        /\ (call.arg = Zero => Written = 1 /\ mem[call.vb] = 0)

\* 150 was encoded as 0x96 0x01
C2_Witness ==
    /\ Encoded({"varint_encode"}) /\ call.arg = FromNat(150, 32)
    /\ Written = 2 /\ mem[call.vb] = 150 /\ mem[call.vb + 1] = 1

\* C3: skip law of the varint codec.  encode_skip(v) is the number of bytes
\* encode(v) writes, and decode_skip of the encoded bytes returns the remainder
\* decode returns.
C3_VarintSkipLaw ==
    Encoded({"varint_encode", "svarint_encode"}) =>
        /\ int_varint_encode_skip(T, call.arg) = Written
        /\ \A is_safe \in BOOLEAN, build \in Builds :
              LET k == varint_decode_skip(is_safe, mem, call.vb, call.ve, build)
                  d == int_varint_decode(T, is_safe, mem, call.vb, call.ve, build)
              IN  k.status = "ok" /\ d.status = "ok" /\ k.rem = d.rem /\ k.rem = call.res.rem

\* zero was encoded, in one byte
C3_Witness == Encoded({"varint_encode"}) /\ call.arg = Zero /\ Written = 1


\* C4: skip law of the enumeration codec.  decode_skip of the bytes encode(v)
\* produced advances by encode_skip(v) bytes: it returns the remainder decode
\* returns.
C4_EnumSkipLaw ==
    Encoded({"enum_encode"}) =>
        \A is_safe \in BOOLEAN, build \in Builds :
            LET k == enum_decode_skip(T, is_safe, mem, call.vb, call.ve, build)
                d == enum_decode(T, is_safe, mem, call.vb, call.ve, build)
            IN  /\ k.status = "ok" /\ d.status = "ok"
                /\ k.rem = call.vb + enum_encode_skip(T, call.arg)
                /\ k.rem = d.rem

\* the coder of a call, applied in the other mode
encode_as(fn, is_safe, v, m, begin, end, build) ==
    IF fn = "array_encode" THEN array_encode(T, is_safe, v, m, begin, end, build)
    ELSE coder_encode(T, is_safe, v, m, begin, end, build)
decode_as(fn, is_safe, m, begin, end, build) ==
    IF fn = "array_encode" THEN array_decode(T, is_safe, m, begin, end, build)
    ELSE coder_decode(T, is_safe, m, begin, end, build)

\* what a call returns and leaves in the array: its status, value, remainder, bytes
Outcome(r) == [f \in (DOMAIN r) \cap {"status", "val", "rem", "mem"} |-> r[f]]

\* C5: safe and unsafe modes agree on sufficient buffers.  Whenever an encode of
\* the varint, enum or array coder succeeds on a view, the encode of the other
\* mode on the same array and view succeeds too, leaves the same bytes and returns
\* the same remainder; and the safe and the unsafe decode of the encoded view both
\* succeed, with the same value and the same remainder.
C5_SafeUnsafeAgree ==
    [][(call'.fn \in EncodeFns /\ call'.res.status = "ok") =>
          /\ {Outcome(encode_as(call'.fn, ~call'.safe, call'.arg, mem, call'.vb, call'.ve,
                                build)) : build \in EncBuilds}
                = {[status |-> "ok", rem |-> call'.res.rem, mem |-> mem']}
          /\ LET safe == {Outcome(decode_as(call'.fn, TRUE, mem', call'.vb, call'.ve, build)) :
                              build \in Builds}
                 unsafe == {Outcome(decode_as(call'.fn, FALSE, mem', call'.vb, call'.ve, build)) :
                              build \in Builds}
             IN  /\ safe = unsafe /\ Cardinality(safe) = 1
                 /\ \A o \in safe : o.status = "ok"]_vars

\* a container of two elements was encoded in safe mode into a view it fills
C5_Witness ==
    /\ Encoded({"array_encode"}) /\ call.safe /\ Len(call.arg) = 2
    /\ call.res.rem = call.ve

\* the unsigned value the coder of type t hands to varint_coder<unsigned>
UnsignedOf(t, v) ==
    CASE Kind(t) = "unsigned" -> v
      [] Kind(t) = "signed" -> ToUnsigned(v, Bits(t))
      [] Kind(t) = "enum" ->
            IF Kind(Underlying(t)) = "signed" THEN ToUnsigned(FromEnum(v), Bits(Underlying(t)))
            ELSE FromEnum(v)

\* the views a call has been made on hold bytes
HasView ==
    call.fn \notin {"new", "encode_skip", "array_encode_skip", "message_encode", "message_decode"}

\* C6: safe decode fails on truncated input.  For every strict prefix, the empty
\* one included, of the bytes varint_coder / enum_coder encode(v) wrote, decode<true>
\* of a view holding that prefix is absent; and safe decode is absent on an empty
\* view and on a view all of whose bytes have the continuation bit.
C6_TruncatedAbsent ==
    /\ Encoded({"varint_encode", "enum_encode"}) =>
          \A e \in call.vb..(call.res.rem - 1), build \in Builds :
              coder_decode(T, TRUE, mem, call.vb, e, build).status = "absent"
    /\ (HasView /\ \A i \in call.vb..(call.ve - 1) : mem[i] >= 128) =>
          \A build \in Builds :
              coder_decode(T, TRUE, mem, call.vb, call.ve, build).status = "absent"

\* a three-byte encoding, whose prefixes of 0, 1 and 2 bytes are truncated inputs
C6_Witness ==
    /\ Encoded({"varint_encode", "enum_encode"}) /\ Written = 3
    /\ coder_decode(T, TRUE, mem, call.vb, call.vb + 2, [iter |-> "trap", shift |-> "zero"]).status
          = "absent"

\* C7: safe encode into a too-small buffer.  When the varint of v needs k bytes
\* and the view holds fewer, varint_coder / enum_coder encode<true> is absent and
\* has written no byte at or beyond the end of the view.
C7_SafeEncodeTooSmall ==
    (/\ call.fn \in {"varint_encode", "enum_encode"} /\ call.safe
     /\ call.ve - call.vb < VarintLen(UnsignedOf(T, call.arg))) =>
        /\ call.res.status = "absent"
        /\ call.res.wr \subseteq call.vb..(call.ve - 1)
        /\ \A i \in call.ve..(Cap - 1) : mem[i] \in Fills /\ mem[i] = mem[Cap - 1]

\* a two-byte varint was encoded into a one-byte view, which was written
C7_Witness ==
    /\ call.fn \in {"varint_encode", "enum_encode"} /\ call.safe
    /\ VarintLen(UnsignedOf(T, call.arg)) = 2 /\ call.ve - call.vb = 1
    /\ call.res.status = "absent" /\ call.res.wr = {call.vb}

\* C8: varint decode width bound.  A decode of varint_coder<U> that returns a
\* value has consumed at most ceil(bitwidth(U)/7) bytes; on a longer run of
\* continuation bytes safe decode is absent.
C8_DecodeWidthBound ==
    /\ (call.fn = "varint_decode" /\ call.res.status = "ok") =>
          call.res.rem - call.vb <= CeilDiv(Bits(T), 7)
    /\ (/\ call.fn = "varint_decode" /\ call.safe
        /\ call.ve - call.vb > CeilDiv(Bits(T), 7)
        /\ \A i \in call.vb..(call.vb + CeilDiv(Bits(T), 7)) : mem[i] >= 128) =>
          call.res.status = "absent"

\* C9: signed varint of a negative 32-bit value.  encode(n) writes 10 bytes, the
\* value sign-extended to 64 bits, and encode_skip(n) is 10.
C9_NegativeInt32TenBytes ==
    (Encoded({"svarint_encode"}) /\ T = "i32" /\ call.arg.neg) =>
        Written = 10 /\ svarint_encode_skip(T, call.arg) = 10

\* the sum of skipper<C>::encode_skip over the elements of con
RECURSIVE SumSkips(_)
SumSkips(con) ==
    IF con = <<>> THEN 0 ELSE coder_encode_skip(T, Head(con)) + SumSkips(Tail(con))
\* the bytes C::encode(v) writes
ElemBytes(v) ==
    LET r == coder_encode(T, FALSE, v, Fresh(0), 0, Cap, [iter |-> "trap", shift |-> "mask"])
    IN  Slice(r.mem, 0, r.rem)
\* the element encodings, one after the other
RECURSIVE Concat(_)
Concat(con) == IF con = <<>> THEN <<>> ELSE ElemBytes(Head(con)) \o Concat(Tail(con))

\* C10: array encode layout.  encode(con) writes varint<u64>(L), then C::encode(e_i)
\* for each element in order, where L is the sum of skipper<C>::encode_skip(e_i);
\* it writes varint_len(L) + L bytes, and the empty container is the byte 0x00.
C10_ArrayLayout ==
    Encoded({"array_encode"}) =>
        LET L == SumSkips(call.arg)
            prefix == Wire(FromNat(L, 64))
        IN  /\ Slice(mem, call.vb, call.res.rem) = prefix \o Concat(call.arg)
            /\ Written = Len(prefix) + L
            /\ (call.arg = <<>> => Written = 1 /\ mem[call.vb] = 0)

\* two elements of two bytes each were encoded after the prefix 0x04
C10_Witness ==
    /\ Encoded({"array_encode"}) /\ Len(call.arg) = 2 /\ Written = 5
    /\ mem[call.vb] = 4

\* the last call decoded a length prefix: res.len is the local len (n), res.origin
\* the offset of the payload (origin_b)
HasPrefix(fns) == call.fn \in fns /\ "len" \in DOMAIN call.res

\* C11: array decode rejects an element that straddles the length boundary.  When
\* array_coder::decode<true> succeeds on a view with length prefix L, the payload
\* it consumed is exactly L bytes: an element that ends past offset L of the
\* payload makes the decode absent.
C11_ArrayDecodeStraddle ==
    (HasPrefix({"array_decode"}) /\ call.safe /\ call.res.status = "ok") =>
        call.res.rem - call.res.origin = LowNat(call.res.len)

\* C12: array round trip.  After array_coder::encode(con) succeeded on a view,
\* decode of that view (in either mode, under every build) returns a container
\* with the elements of con in the order of con, and its remainder begins where
\* the remainder of encode begins.
C12_ArrayRoundTrip ==
    Encoded({"array_encode"}) =>
        \A is_safe \in BOOLEAN, build \in Builds :
            LET d == array_decode(T, is_safe, mem, call.vb, call.ve, build)
            IN  d.status = "ok" /\ d.val = call.arg /\ d.rem = call.res.rem

\* a container of two different elements was encoded
C12_Witness ==
    /\ Encoded({"array_encode"}) /\ Len(call.arg) = 2 /\ call.arg[1] # call.arg[2]
    /\ array_decode(T, TRUE, mem, call.vb, call.ve, [iter |-> "trap", shift |-> "zero"]).val
          = call.arg

\* the offset just after the first byte of the view of the last call whose MSB is 0
AfterTerminator ==
    1 + (CHOOSE i \in call.vb..(call.ve - 1) :
            mem[i] < 128 /\ \A j \in call.vb..(i - 1) : mem[j] >= 128)

Overrun ==
    \/ \E i \in call.res.len : i >= 30
    \/ call.ve - call.res.origin < LowNat(call.res.len)

\* C14: length-prefix overrun.  When the length prefix claims more bytes than
\* remain in the view after it, array_coder::decode<true> and
\* skipper<array_coder>::decode_skip<true> are absent, and neither has read a byte
\* outside the view.
C14_LengthPrefixOverrun ==
    (HasPrefix({"array_decode", "array_decode_skip"}) /\ call.safe /\ Overrun) =>
        /\ call.res.status = "absent"
        /\ call.res.rd \subseteq call.vb..(call.ve - 1)

\* a stored block whose prefix claims three bytes and whose payload is one byte
\* was handed to decode_skip<true>
C14_Witness ==
    /\ HasPrefix({"array_decode_skip"}) /\ call.safe
    /\ LowNat(call.res.len) = 3 /\ call.ve - call.res.origin = 1
    /\ call.res.status = "absent"

\* the bytes varint_coder<U>::encode(x) writes for a value x of the integer type u
VarintBytes(u, x) ==
    LET r == int_varint_encode(u, FALSE, x, Fresh(0), 0, Cap, [iter |-> "trap", shift |-> "mask"])
    IN  Slice(r.mem, 0, r.rem)

\* the enumeration value whose underlying value is the small natural number x
EnumOf(t, x) ==
    IF Kind(Underlying(t)) = "signed"
    THEN ToEnum([neg |-> FALSE, mag |-> FromNat(x, Bits(Underlying(t)))])
    ELSE ToEnum(FromNat(x, Bits(Underlying(t))))

\* C15: the enumeration codec is the varint of the underlying integer.
\* enum_coder<T>::encode(v) writes the bytes varint_coder<underlying>::encode of
\* the underlying value writes (1 is 0x01, 128 is 0x80 0x01), and decode returns
\* the cast of the varint-decoded underlying value with the remainder of the
\* varint: every value of the underlying type, named or not, round-trips.
C15_EnumIsVarint ==
    Encoded({"enum_encode"}) =>
        /\ Slice(mem, call.vb, call.res.rem) = VarintBytes(Underlying(T), FromEnum(call.arg))
        /\ (call.arg = EnumOf(T, 1) => Slice(mem, call.vb, call.res.rem) = <<1>>)
        /\ (call.arg = EnumOf(T, 128) => Slice(mem, call.vb, call.res.rem) = <<128, 1>>)
        /\ \A is_safe \in BOOLEAN, build \in Builds :
              LET d == enum_decode(T, is_safe, mem, call.vb, call.ve, build)
                  u == int_varint_decode(Underlying(T), is_safe, mem, call.vb, call.ve, build)
              IN  /\ d.status = "ok" /\ u.status = "ok"
                  /\ d.val = ToEnum(u.val) /\ d.val = call.arg
                  /\ d.rem = u.rem /\ d.rem = call.res.rem

\* the value 128 (blue) was encoded as 0x80 0x01
C15_Witness ==
    /\ Encoded({"enum_encode"}) /\ call.arg = EnumOf(T, 128)
    /\ Written = 2 /\ mem[call.vb] = 128 /\ mem[call.vb + 1] = 1

\* C16: width of the boolean codec.  In both modes bool_coder::encode writes one
\* byte, 0x01 for true and 0x00 for false; decode of it consumes that byte and
\* returns the value; encode_skip is 1; decode_skip advances one byte, and in safe
\* mode is absent on an empty view.
C16_BoolOneByte ==
    /\ Encoded({"bool_encode"}) =>
          /\ Written = 1 /\ mem[call.vb] = (IF call.arg THEN 1 ELSE 0)
          /\ bool_encode_skip(call.arg) = 1
          /\ \A is_safe \in BOOLEAN, build \in Builds :
                LET d == bool_decode(is_safe, mem, call.vb, call.ve, build)
                    k == bool_decode_skip(is_safe, call.vb, call.ve)
                IN  /\ d.status = "ok" /\ d.val = call.arg /\ d.rem = call.vb + 1
                    /\ k.status = "ok" /\ k.rem = call.vb + 1
    /\ (call.fn = "bool_decode_skip" /\ call.res.status = "ok") =>
          call.res.rem = call.vb + 1
    /\ (call.fn = "bool_decode_skip" /\ call.safe /\ call.vb = call.ve) =>
          call.res.status = "absent"

\* decode_skip<true> was handed an empty view
C16_Witness ==
    /\ call.fn = "bool_decode_skip" /\ call.safe /\ call.vb = call.ve
    /\ call.res.status = "absent"

\* the number of leading elements of con whose encodings fit in room bytes
RECURSIVE Fit(_, _)
Fit(con, room) ==
    IF con = <<>> \/ Len(ElemBytes(Head(con))) > room THEN 0
    ELSE 1 + Fit(Tail(con), room - Len(ElemBytes(Head(con))))

\* C18: safe array encode short-circuits on buffer exhaustion.  When the view is
\* shorter than varint_len(L) + L bytes, array_coder::encode<true> is absent; it
\* returns at the first absent result, of the length prefix or of an element, so
\* that no later element is encoded; and it writes no byte outside the view.
C18_ArrayEncodeShortCircuit ==
    LET L == SumSkips(call.arg)
        P == VarintLen(FromNat(L, 64))
        room == call.ve - call.vb
    IN  (call.fn = "array_encode" /\ call.safe /\ room < P + L) =>
            /\ call.res.status = "absent"
            /\ call.res.calls = (IF room < P THEN 0 ELSE Fit(call.arg, room - P) + 1)
            /\ call.res.calls <= Len(call.arg)
            /\ call.res.wr \subseteq call.vb..(call.ve - 1)
            /\ \A i \in (0..(call.vb - 1)) \cup (call.ve..(Cap - 1)) :
                  mem[i] \in Fills /\ mem[i] = mem[0]

\* the first of two elements did not fit: the second was not encoded
C18_Witness ==
    /\ call.fn = "array_encode" /\ call.safe /\ Len(call.arg) = 2
    /\ call.res.status = "absent" /\ call.res.calls = 1
    /\ call.vb = 1 /\ call.ve - call.vb = 2

\* C19: array decode is bounded by its length prefix.  With a length prefix L
\* (every successful element decode consumes at least one byte) the loop of
\* array_coder::decode decodes at most L elements, and the container it returns
\* holds at most L elements.
C19_ArrayDecodeBounded ==
    (HasPrefix({"array_decode"}) /\ \A i \in call.res.len : i < 30) =>
        /\ call.res.calls <= LowNat(call.res.len)
        /\ (call.res.status = "ok" =>
               /\ Len(call.res.val) <= LowNat(call.res.len)
               /\ Len(call.res.val) = call.res.calls)

\* a block of three one-byte elements was decoded: three element decodes
C19_Witness ==
    /\ HasPrefix({"array_decode"}) /\ LowNat(call.res.len) = 3
    /\ call.res.status = "ok" /\ call.res.calls = 3 /\ Len(call.res.val) = 3

\* C20: varint decode and decode_skip agree on arbitrary input.  On every view
\* varint_coder::decode<true> is absent exactly when
\* skipper<varint_coder>::decode_skip<true> is absent, and when they succeed they
\* return the same remainder: the view just after the first byte whose MSB is 0.
C20_DecodeSkipAgree ==
    (HasView /\ Kind(T) \in {"unsigned", "signed"}) =>
        \A build \in Builds :
            LET d == int_varint_decode(T, TRUE, mem, call.vb, call.ve, build)
                k == varint_decode_skip(TRUE, mem, call.vb, call.ve, build)
            IN  /\ d.status \in {"ok", "absent"} /\ k.status = d.status
                /\ (d.status = "ok" => d.rem = k.rem /\ k.rem = AfterTerminator)

\* stored bytes that no encode wrote: a run of continuation bytes longer than
\* the width of the type, then a terminator
C20_Witness ==
    /\ call.fn = "store" /\ T = "u8" /\ call.ve - call.vb = 4
    /\ mem[call.vb] = 255 /\ mem[call.ve - 1] = 127
    /\ varint_decode_skip(TRUE, mem, call.vb, call.ve, [iter |-> "trap", shift |-> "zero"]).status
          = "ok"

\* C17: the example of the README.  Encoding Class{"class 101", [Student{456,
\* "tom"}, Student{123456, "jerry"}, Student{123, "twice"}]} into the 64-byte
\* buffer writes 45 bytes, and decoding the buffer yields a value equal to the
\* input, with the remainder at the offset of the remainder of encode.
C17_ReadmeExample ==
    /\ (call.fn = "message_encode" /\ call.arg = ReadmeClass) =>
          call.res.status = "ok" /\ call.res.rem = 45
    /\ (call.fn = "message_decode" /\ call.arg = ReadmeClass /\ call.ve = BufSize) =>
          /\ call.res.status = "ok" /\ call.res.val = call.arg
          /\ call.res.rem = call.enc

\* the encode of the example writes 45 bytes, and the decode of these 45 bytes
\* yields the input and an empty remainder
ReadmeWrittenBytes ==
    /\ (call.fn = "message_encode" /\ call.arg = ReadmeClass) =>
          call.res.status = "ok" /\ call.res.rem = 45
    /\ (call.fn = "message_decode" /\ call.ve = call.enc) =>
          /\ call.res.status = "ok" /\ call.res.val = call.arg
          /\ call.res.rem = call.enc

====
